---- MODULE Spec2Model ----
(***************************************************************************)
(* StoreFront tool-invocation endpoint (the route's POST handler) as a     *)
(* state machine: reserve_stock_item under Spec, find_product_nearby under *)
(* SearchSpec.                                                             *)
(*                                                                         *)
(* The stock table lives in a PostgreSQL database reached through drizzle. *)
(* db.transaction(...) is opened without an isolation level, so each       *)
(* reservation runs at the database default, READ COMMITTED: a plain       *)
(* SELECT reads the last committed row version and takes no lock, an       *)
(* UPDATE takes the row lock (waiting for a holder to finish) and writes   *)
(* on top of the latest committed version, COMMIT publishes the write.     *)
(* The updated_at column is written but never read and is left out.        *)
(***************************************************************************)
EXTENDS Integers, Sequences, FiniteSets, TLC

(* ----------------------------- bounds ---------------------------------- *)
\* largest initial available_quantity and largest requested quantity
MaxQuantity == 3
\* number of restock increments the external process performs
MaxRestocks == 1

\* the concurrent HTTP requests, numbered in order of arrival
Requests == {"r1", "r2"}
RequestOrder == <<"r1", "r2">>
StoreIds == {"S1", "S2"}
ProductIds == {"P1"}
Keys == StoreIds \X ProductIds
RestockAmounts == {1, 2}

VARIABLES
    stock,          \* stock table: (store id, product id) of each row -> available_quantity
    stock0,         \* history: the stock table at start
    restocked,      \* history: total restock increment per key
    nRestocks,      \* history: number of restock increments so far
    pc,             \* per request: "idle", "selected", "updated", "done"
    params,         \* per request: parsed params of reserve_stock_item
    currentStock,   \* per request: rows returned by the SELECT (at most one)
    response,       \* per request: the HTTP response
    overlapped,     \* history: the request ran while another request or a restock acted
    findParams,     \* find_product_nearby: the parsed params of the last request
    results,        \* find_product_nearby: the rows the query returned
    findResponse,   \* find_product_nearby: the HTTP response
    body,           \* per request: the JSON body of the POST, as received
    clerkResult,    \* getAppAuth: what clerkAuth() does for this request
    bridgeCookie,   \* getAppAuth: the app_bridge_session cookie of this request
    authPc,         \* getAppAuth: "unused", "called", "returned", "raised"
    appAuth,        \* getAppAuth: the AppAuth returned
    gateConfig,     \* process environment: Clerk publishable key, INTERNAL_SYSTEM_KEY
    gateRequest,    \* middleware / proxy: pathname and x-internal-system-key header
    middlewareResult, \* middleware: the return statement taken and its outcome
    proxyResult     \* proxy: the return statement taken and its outcome

reserveVars ==
    <<stock0, restocked, nRestocks, pc, params, currentStock, response, overlapped, body>>
findVars == <<findParams, results, findResponse>>
authVars == <<clerkResult, bridgeCookie, authPc, appAuth>>
gateVars == <<gateConfig, gateRequest, middlewareResult, proxyResult>>
vars == <<stock, reserveVars, findVars, authVars, gateVars>>

(* --------------------------- JSON values -------------------------------- *)
\* a JSON / JavaScript value; numbers are held in tenths (1.5 is 15)
JNull == [type |-> "null", num |-> 0, str |-> ""]
JUndefined == [type |-> "undefined", num |-> 0, str |-> ""]
JNumber(tenths) == [type |-> "number", num |-> tenths, str |-> ""]
JInteger(n) == JNumber(n * 10)
JString(s) == [type |-> "string", num |-> 0, str |-> s]

\* JavaScript truthiness: null, undefined, "" and 0 are falsy
Truthy(v) ==
    \/ v.type = "string" /\ v.str # ""
    \/ v.type = "number" /\ v.num # 0

\* the params object of a POST body, field by field (absent fields undefined)
NoRawParams ==
    [present |-> FALSE,
     product_id |-> JUndefined, store_id |-> JUndefined, quantity |-> JUndefined,
     product_query |-> JUndefined, user_lat |-> JUndefined, user_lng |-> JUndefined,
     max_radius_miles |-> JUndefined]

RawReserveParams(product_id, store_id, quantity) ==
    [NoRawParams EXCEPT !.present = TRUE, !.product_id = product_id,
                        !.store_id = store_id, !.quantity = quantity]

RawFindParams(product_query, user_lat, user_lng, max_radius_miles) ==
    [NoRawParams EXCEPT !.present = TRUE, !.product_query = product_query,
                        !.user_lat = user_lat, !.user_lng = user_lng,
                        !.max_radius_miles = max_radius_miles]

\* the body before the request arrives
NoBody == [kind |-> "none", tool |-> JUndefined, params |-> NoRawParams]

(* ----------------------- reserve_stock_item ----------------------------- *)
NoParams == [product_id |-> "", store_id |-> "", quantity |-> 0]
NoResponse == [status |-> 0, isError |-> FALSE, text |-> [msg |-> ""]]

\* reserveStockSchema: quantity is a positive integer
reserveStockSchema(p) ==
    /\ p.product_id \in STRING
    /\ p.store_id \in STRING
    /\ p.quantity \in Int /\ p.quantity > 0

SelectWhereProductOnly(store_id, product_id) ==
    {k \in DOMAIN stock : k[2] = product_id}

\* the rows the SELECT's where clause keeps
SelectWhere(store_id, product_id) ==
    {k \in DOMAIN stock : k[1] = store_id /\ k[2] = product_id}

\* an UPDATE whose where clause names the product only
UpdateWhereProductOnly(store_id, product_id) ==
    {k \in DOMAIN stock : k[2] = product_id}

\* the rows the UPDATE's where clause touches
UpdateWhere(store_id, product_id) ==
    {k \in DOMAIN stock : k[1] = store_id /\ k[2] = product_id}

RECURSIVE RowsOf(_)
RowsOf(ks) ==
    IF ks = {} THEN <<>>
    ELSE LET k == CHOOSE x \in ks : TRUE
         IN <<[storeId |-> k[1], productId |-> k[2], availableQuantity |-> stock[k]]>>
            \o RowsOf(ks \ {k})

\* tx.select().from(stock).where(...)
SelectStock(store_id, product_id) == RowsOf(SelectWhere(store_id, product_id))

\* currentStock.length === 0
StockRecordMissing(rows) == Len(rows) = 0

InsufficientStockNever(rows, quantity) == FALSE

InsufficientStockAtEqual(rows, quantity) == rows[1].availableQuantity <= quantity

\* currentStock[0].availableQuantity < quantity
InsufficientStock(rows, quantity) == rows[1].availableQuantity < quantity

\* availableQuantity: currentStock[0].availableQuantity - quantity
DecrementedQuantity(rows, quantity) == rows[1].availableQuantity - quantity

SuccessResponse(p) ==
    [status |-> 200, isError |-> FALSE,
     text |-> [msg |-> "Successfully reserved", quantity |-> p.quantity,
               product_id |-> p.product_id, store_id |-> p.store_id]]

\* the inner catch: every error thrown inside the transaction ends here
FailureResponse(errorMessage) ==
    [status |-> 200, isError |-> TRUE,
     text |-> [msg |-> "Reservation failed", error |-> errorMessage]]

NotFoundError == [msg |-> "Stock record not found"]

InsufficientStockErrorRequestedTwice(rows, quantity) ==
    [msg |-> "Insufficient stock", available |-> quantity, requested |-> quantity]

InsufficientStockError(rows, quantity) ==
    [msg |-> "Insufficient stock", available |-> rows[1].availableQuantity,
     requested |-> quantity]

InFlight(r) == pc[r] \in {"selected", "updated"}

\* a request arrives only after the requests numbered before it
ArrivedBefore(r) ==
    \A i \in 1..Len(RequestOrder) :
        RequestOrder[i] = r => \A j \in 1..(i - 1) : pc[RequestOrder[j]] # "idle"

\* POST with tool = reserve_stock_item: parse the params, open the
\* transaction and run the SELECT
Begin(r) ==
    /\ pc[r] = "idle"
    /\ ArrivedBefore(r)
    /\ \E s \in StoreIds, p \in ProductIds, q \in 1..MaxQuantity :
         LET ps == [product_id |-> p, store_id |-> s, quantity |-> q] IN
         /\ reserveStockSchema(ps)
         /\ body' = [body EXCEPT ![r] =
                [kind |-> "object", tool |-> JString("reserve_stock_item"),
                 params |-> RawReserveParams(JString(p), JString(s), JInteger(q))]]
         /\ params' = [params EXCEPT ![r] = ps]
         /\ currentStock' = [currentStock EXCEPT ![r] = SelectStock(s, p)]
    /\ pc' = [pc EXCEPT ![r] = "selected"]
    /\ overlapped' = [x \in Requests |->
                        IF x = r THEN \E y \in Requests \ {r} : InFlight(y)
                        ELSE overlapped[x] \/ InFlight(x)]
    /\ UNCHANGED <<stock, stock0, restocked, nRestocks, response>>
    /\ UNCHANGED <<findVars, authVars, gateVars>>

\* throw new Error('Stock record not found'): rollback, failure envelope
ThrowNotFound(r) ==
    /\ pc[r] = "selected"
    /\ StockRecordMissing(currentStock[r])
    /\ pc' = [pc EXCEPT ![r] = "done"]
    /\ response' = [response EXCEPT ![r] = FailureResponse(NotFoundError)]
    /\ UNCHANGED <<stock, stock0, restocked, nRestocks, params, currentStock, overlapped, body>>
    /\ UNCHANGED <<findVars, authVars, gateVars>>

\* throw new Error('Insufficient stock. ...'): rollback, failure envelope
ThrowInsufficient(r) ==
    /\ pc[r] = "selected"
    /\ ~StockRecordMissing(currentStock[r])
    /\ InsufficientStock(currentStock[r], params[r].quantity)
    /\ pc' = [pc EXCEPT ![r] = "done"]
    /\ response' = [response EXCEPT ![r] =
           FailureResponse(InsufficientStockError(currentStock[r], params[r].quantity))]
    /\ UNCHANGED <<stock, stock0, restocked, nRestocks, params, currentStock, overlapped, body>>
    /\ UNCHANGED <<findVars, authVars, gateVars>>

LockedRows(r) ==
    IF pc[r] = "updated" THEN UpdateWhere(params[r].store_id, params[r].product_id) ELSE {}

\* tx.update(stock).set(...).where(...): waits for the row lock, then holds it
Update(r) ==
    /\ pc[r] = "selected"
    /\ ~StockRecordMissing(currentStock[r])
    /\ ~InsufficientStock(currentStock[r], params[r].quantity)
    /\ \A o \in Requests \ {r} :
         LockedRows(o) \cap UpdateWhere(params[r].store_id, params[r].product_id) = {}
    /\ pc' = [pc EXCEPT ![r] = "updated"]
    /\ UNCHANGED <<stock, stock0, restocked, nRestocks, params, currentStock, response, overlapped, body>>
    /\ UNCHANGED <<findVars, authVars, gateVars>>

\* the transaction commits: the write becomes visible, the success response is sent
Commit(r) ==
    /\ pc[r] = "updated"
    /\ stock' = [k \in DOMAIN stock |->
                   IF k \in UpdateWhere(params[r].store_id, params[r].product_id)
                   THEN DecrementedQuantity(currentStock[r], params[r].quantity)
                   ELSE stock[k]]
    /\ pc' = [pc EXCEPT ![r] = "done"]
    /\ response' = [response EXCEPT ![r] = SuccessResponse(params[r])]
    /\ UNCHANGED <<stock0, restocked, nRestocks, params, currentStock, overlapped, body>>
    /\ UNCHANGED <<findVars, authVars, gateVars>>

\* the external restocking process: one atomic increment of a row
Restock(k, n) ==
    /\ nRestocks < MaxRestocks
    /\ k \in DOMAIN stock
    /\ \A o \in Requests : k \notin LockedRows(o)
    /\ stock' = [stock EXCEPT ![k] = @ + n]
    /\ restocked' = [restocked EXCEPT ![k] = @ + n]
    /\ nRestocks' = nRestocks + 1
    /\ overlapped' = [x \in Requests |-> overlapped[x] \/ InFlight(x)]
    /\ UNCHANGED <<stock0, pc, params, currentStock, response, body>>
    /\ UNCHANGED <<findVars, authVars, gateVars>>

NoFindParams ==
    [product_query |-> <<>>, user_lat |-> 0, user_lng |-> 0, max_radius_miles |-> 0]
NoFindResponse == [status |-> 0]

(* ------------- values of the parts a behaviour does not use -------------- *)
NoClaims == [present |-> FALSE, metadata |-> FALSE, role |-> JUndefined]
NoClerkResult == [threw |-> FALSE, userId |-> JNull, sessionClaims |-> NoClaims]
NoCookie == [present |-> FALSE, value |-> ""]
NoAppAuth == [userId |-> JUndefined, source |-> "", role |-> JUndefined]
NoGateConfig ==
    [publishableKey |-> [present |-> FALSE, length |-> 0],
     internalSystemKey |-> [present |-> FALSE, value |-> ""]]
NoGateRequest == [pathname |-> <<>>, header |-> [present |-> FALSE, value |-> ""]]
NoGateResult == [returnedAt |-> "", outcome |-> "", status |-> 0]

ReserveUnused ==
    /\ stock0 = stock
    /\ restocked = [k \in Keys |-> 0]
    /\ nRestocks = 0
    /\ pc = [r \in Requests |-> "idle"]
    /\ params = [r \in Requests |-> NoParams]
    /\ currentStock = [r \in Requests |-> <<>>]
    /\ response = [r \in Requests |-> NoResponse]
    /\ overlapped = [r \in Requests |-> FALSE]
    /\ body = [r \in Requests |-> NoBody]

FindUnused ==
    /\ findParams = NoFindParams
    /\ results = <<>>
    /\ findResponse = NoFindResponse

AuthUnused ==
    /\ clerkResult = NoClerkResult
    /\ bridgeCookie = NoCookie
    /\ authPc = "unused"
    /\ appAuth = NoAppAuth

GateUnused ==
    /\ gateConfig = NoGateConfig
    /\ gateRequest = NoGateRequest
    /\ middlewareResult = NoGateResult
    /\ proxyResult = NoGateResult

StockTables == UNION {[D -> 0..MaxQuantity] : D \in SUBSET Keys}

Init ==
    /\ stock \in StockTables
    /\ stock0 = stock
    /\ restocked = [k \in Keys |-> 0]
    /\ nRestocks = 0
    /\ pc = [r \in Requests |-> "idle"]
    /\ params = [r \in Requests |-> NoParams]
    /\ currentStock = [r \in Requests |-> <<>>]
    /\ response = [r \in Requests |-> NoResponse]
    /\ overlapped = [r \in Requests |-> FALSE]
    /\ body = [r \in Requests |-> NoBody]
    /\ findParams = NoFindParams
    /\ results = <<>>
    /\ findResponse = NoFindResponse
    /\ AuthUnused
    /\ GateUnused

Next ==
    \/ \E r \in Requests : Begin(r)
    \/ \E r \in Requests : ThrowNotFound(r)
    \/ \E r \in Requests : ThrowInsufficient(r)
    \/ \E r \in Requests : Update(r)
    \/ \E r \in Requests : Commit(r)
    \/ \E k \in Keys, n \in RestockAmounts : Restock(k, n)

Spec == Init /\ [][Next]_vars

(* ----------------------- find_product_nearby ---------------------------- *)
(* Coordinates are in millionths of a degree, distances in thousandths of  *)
(* a mile rounded down, distance_miles in hundredths of a mile.  With a     *)
(* radius that is a whole number of thousandths, distance < radius on the   *)
(* rounded-down thousandths is the comparison on the exact value, and       *)
(* rounding the exact value to two decimals depends on its thousandths      *)
(* only.                                                                    *)

\* number of stock rows that are out of stock at start
MaxOutOfStock == 1

\* .limit(10)
Limit == 10
\* max_radius_miles: z.number().default(10)
DefaultMaxRadiusMiles == 10

\* the stores table (reference data)
stores ==
    [S1 |-> [name |-> "Store A", latitude |-> 37000000, longitude |-> -122000000,
             fullAddress |-> "1 A St"],
     S2 |-> [name |-> "Store B", latitude |-> 37500000, longitude |-> -122500000,
             fullAddress |-> "2 B St"],
     S3 |-> [name |-> "Store C", latitude |-> 37044500, longitude |-> -122000000,
             fullAddress |-> "3 C St"],
     S4 |-> [name |-> "Store D", latitude |-> 37144596, longitude |-> -122000000,
             fullAddress |-> "4 D St"],
     S5 |-> [name |-> "Store E", latitude |-> 37144641, longitude |-> -122000000,
             fullAddress |-> "5 E St"],
     S6 |-> [name |-> "Store F", latitude |-> 37144671, longitude |-> -122000000,
             fullAddress |-> "6 F St"]]

\* the products table (reference data); names are sequences of characters
products ==
    [P1 |-> [name |-> <<"W", "i", "d", "g", "e", "t">>, price |-> 1999],
     P2 |-> [name |-> <<"G", "a", "d", "g", "e", "t">>, price |-> 2499]]

SearchKeys == (DOMAIN stores) \X (DOMAIN products)

\* the callers' positions: at store A, and at store C
UserPositions ==
    {[user_lat |-> 37000000, user_lng |-> -122000000],
     [user_lat |-> 37044500, user_lng |-> -122000000]}

\* max_radius_miles as sent: absent, 5, 10 or 50 miles
RadiusInputs == {<<>>, <<5000>>, <<10000>>, <<50000>>}

\* product_query as sent: "WIDGET", "dget", "x", "", "w_d", "%"
Queries ==
    {<<"W", "I", "D", "G", "E", "T">>, <<"d", "g", "e", "t">>, <<"x">>, <<>>,
     <<"w", "_", "d">>, <<"%">>}

\* 3959 * acos(cos(radians(user_lat)) * cos(radians(latitude)) *
\*   cos(radians(longitude) - radians(user_lng)) +
\*   sin(radians(user_lat)) * sin(radians(latitude)))
\* evaluated in double precision for the positions above:
\* <<user_lat, user_lng, latitude, longitude, thousandths of a mile>>
DistanceTable ==
    {<<37000000, -122000000, 37000000, -122000000, 0>>,
     <<37000000, -122000000, 37500000, -122500000, 44157>>,
     <<37000000, -122000000, 37044500, -122000000, 3074>>,
     <<37000000, -122000000, 37144596, -122000000, 9991>>,
     <<37000000, -122000000, 37144641, -122000000, 9994>>,
     <<37000000, -122000000, 37144671, -122000000, 9996>>,
     <<37044500, -122000000, 37000000, -122000000, 3074>>,
     <<37044500, -122000000, 37500000, -122500000, 41790>>,
     <<37044500, -122000000, 37144596, -122000000, 6916>>,
     <<37044500, -122000000, 37144641, -122000000, 6919>>,
     <<37044500, -122000000, 37144671, -122000000, 6921>>}

\* the positions for which the argument of acos exceeds 1 in double
\* precision (1.0000000000000002): acos raises "input is out of range"
AcosOutOfRange == {<<37044500, -122000000, 37044500, -122000000>>}

distance(user_lat, user_lng, latitude, longitude) ==
    (CHOOSE t \in DistanceTable :
        /\ t[1] = user_lat /\ t[2] = user_lng
        /\ t[3] = latitude /\ t[4] = longitude)[5]

LowerCase ==
    [W |-> "w", I |-> "i", D |-> "d", G |-> "g", E |-> "e", T |-> "t", A |-> "a", X |-> "x"]

Lower(c) == IF c \in DOMAIN LowerCase THEN LowerCase[c] ELSE c

\* s ILIKE pattern: % matches any run of characters, _ any one character,
\* a backslash takes the next character literally, letters match without case
RECURSIVE ilike(_, _)
ilike(s, pattern) ==
    IF pattern = <<>> THEN s = <<>>
    ELSE IF Head(pattern) = "%"
         THEN ilike(s, Tail(pattern)) \/ (s # <<>> /\ ilike(Tail(s), pattern))
    ELSE IF s = <<>> THEN FALSE
    ELSE IF Head(pattern) = "_" THEN ilike(Tail(s), Tail(pattern))
    ELSE IF Head(pattern) = "\\" /\ Len(pattern) >= 2
         THEN Lower(pattern[2]) = Lower(Head(s)) /\ ilike(Tail(s), Tail(Tail(pattern)))
    ELSE Lower(Head(pattern)) = Lower(Head(s)) /\ ilike(Tail(s), Tail(pattern))

\* findProductSchema.parse: max_radius_miles defaults to 10
findProductSchema(raw) ==
    [product_query |-> raw.product_query,
     user_lat |-> raw.user_lat,
     user_lng |-> raw.user_lng,
     max_radius_miles |->
        IF raw.max_radius_miles = <<>> THEN DefaultMaxRadiusMiles * 1000
        ELSE raw.max_radius_miles[1]]

\* stock inner join stores inner join products
Joined == {k \in DOMAIN stock : k[1] \in DOMAIN stores /\ k[2] \in DOMAIN products}

\* ilike(products.name, `%${product_query}%`)
NameMatches(k, p) == ilike(products[k[2]].name, <<"%">> \o p.product_query \o <<"%">>)

\* gt(stock.availableQuantity, 0)
InStock(k) == stock[k] > 0

RowDistance(k, p) ==
    distance(p.user_lat, p.user_lng, stores[k[1]].latitude, stores[k[1]].longitude)

RowOutOfRange(k, p) ==
    <<p.user_lat, p.user_lng, stores[k[1]].latitude, stores[k[1]].longitude>> \in AcosOutOfRange

WithinDefaultRadius(d, max_radius_miles) == d < DefaultMaxRadiusMiles * 1000

\* sql`${distance} < ${max_radius_miles}`
WithinRadius(d, max_radius_miles) == d < max_radius_miles

\* the rows the where clause keeps
Where(p) ==
    {k \in Joined :
        /\ NameMatches(k, p)
        /\ InStock(k)
        /\ ~RowOutOfRange(k, p)
        /\ WithinRadius(RowDistance(k, p), p.max_radius_miles)}

Row(k, p) ==
    [store |-> k[1], product |-> k[2], availableQuantity |-> stock[k],
     distance |-> RowDistance(k, p)]

\* Number(distance).toFixed(2), in hundredths: the nearest, halves upwards
toFixed2(d) == (d + 5) \div 10

OrderKeyRounded(row) == toFixed2(row.distance)

\* .orderBy(distance)
OrderKey(row) == row.distance

\* every order the database may return the rows in: ascending by the order
\* key, rows with equal keys in any order
RECURSIVE OrderBy(_)
OrderBy(rows) ==
    IF rows = {} THEN {<<>>}
    ELSE LET firsts == {x \in rows : \A y \in rows : OrderKey(x) <= OrderKey(y)}
         IN UNION {{<<x>> \o t : t \in OrderBy(rows \ {x})} : x \in firsts}

LimitOffByOne(rows) == SubSeq(rows, 1, IF Len(rows) < Limit + 1 THEN Len(rows) ELSE Limit + 1)

\* .limit(10)
LimitRows(rows) == SubSeq(rows, 1, IF Len(rows) < Limit THEN Len(rows) ELSE Limit)

\* results.map(...)
MappedResult(row) ==
    [store_id |-> row.store,
     venue_id |-> row.store,
     store_name |-> stores[row.store].name,
     product_name |-> products[row.product].name,
     price |-> products[row.product].price,
     available_quantity |-> row.availableQuantity,
     distance_miles |-> toFixed2(row.distance),
     formatted_pickup_address |-> stores[row.store].fullAddress]

OffersResponse(mappedResults) ==
    [status |-> 200, isError |-> FALSE,
     text |-> [msg |-> "offers", offers |-> mappedResults]]

NoStoresAsServerError(p) == [status |-> 500, error |-> "No stores found"]

\* mappedResults.length === 0: "No stores found with ... in stock within ... miles."
NoStoresResponse(p) ==
    [status |-> 200, isError |-> FALSE,
     text |-> [msg |-> "No stores found", product_query |-> p.product_query,
               max_radius_miles |-> p.max_radius_miles]]

\* the outer catch
ServerErrorResponse(message) == [status |-> 500, error |-> message]

\* the rows for which the database evaluates the distance expression: those
\* the other two conditions keep, or (the expression reads the stores table
\* only) every joined row
Evaluated(p, everyRow) ==
    IF everyRow THEN Joined ELSE {k \in Joined : NameMatches(k, p) /\ InStock(k)}

\* POST with tool = find_product_nearby (one request per behaviour: the
\* handler writes nothing a later request reads)
Find(raw, everyRow) ==
    LET p == findProductSchema(raw) IN
    /\ findResponse = NoFindResponse
    /\ findParams' = p
    /\ IF \E k \in Evaluated(p, everyRow) : RowOutOfRange(k, p)
       THEN /\ results' = <<>>
            /\ findResponse' = ServerErrorResponse("input is out of range")
       ELSE \E ordered \in OrderBy({Row(k, p) : k \in Where(p)}) :
              /\ results' = LimitRows(ordered)
              /\ findResponse' =
                   IF Len(results') = 0 THEN NoStoresResponse(p)
                   ELSE OffersResponse([i \in 1..Len(results') |-> MappedResult(results'[i])])
    /\ UNCHANGED <<stock, reserveVars, authVars, gateVars>>

\* every row in stock with a quantity of its own, but for at most
\* MaxOutOfStock rows with available_quantity 0
SearchStockTables ==
    {[k \in SearchKeys |-> IF k \in Z THEN 0 ELSE 5] :
        Z \in {Y \in SUBSET SearchKeys : Cardinality(Y) <= MaxOutOfStock}}

SearchInit ==
    /\ stock \in SearchStockTables
    /\ stock0 = stock
    /\ restocked = [k \in Keys |-> 0]
    /\ nRestocks = 0
    /\ pc = [r \in Requests |-> "idle"]
    /\ params = [r \in Requests |-> NoParams]
    /\ currentStock = [r \in Requests |-> <<>>]
    /\ response = [r \in Requests |-> NoResponse]
    /\ overlapped = [r \in Requests |-> FALSE]
    /\ body = [r \in Requests |-> NoBody]
    /\ findParams = NoFindParams
    /\ results = <<>>
    /\ findResponse = NoFindResponse
    /\ AuthUnused
    /\ GateUnused

SearchNext ==
    \E q \in Queries, u \in UserPositions, r \in RadiusInputs, everyRow \in BOOLEAN :
        Find([product_query |-> q, user_lat |-> u.user_lat, user_lng |-> u.user_lng,
              max_radius_miles |-> r], everyRow)

SearchSpec == SearchInit /\ [][SearchNext]_vars

(* ------------------- claims: reserve_stock_item ------------------------- *)
KeyOf(r) == <<params[r].store_id, params[r].product_id>>
Succeeded(r) == pc[r] = "done" /\ response[r].status = 200 /\ ~response[r].isError
FailedWith(r, m) ==
    /\ pc[r] = "done"
    /\ response[r].status = 200
    /\ response[r].isError
    /\ response[r].text.msg = "Reservation failed"
    /\ response[r].text.error.msg = m

RECURSIVE SumQuantity(_)
SumQuantity(rs) ==
    IF rs = {} THEN 0
    ELSE LET r == CHOOSE x \in rs : TRUE
         IN params[r].quantity + SumQuantity(rs \ {r})

\* total quantity of the reservations on key k that reported success
ReservedOK(k) == SumQuantity({r \in Requests : Succeeded(r) /\ KeyOf(r) = k})

\* C1: in every reachable state, whatever the initial stock table and the
\* interleaving of the reservations' reads and writes, every stock row has
\* available_quantity >= 0.
C1_NonNegativeStock == \A k \in DOMAIN stock : stock[k] >= 0

\* two overlapping reservations both committed and emptied the row
C1_Witness ==
    \E k \in DOMAIN stock :
        /\ stock[k] = 0
        /\ stock0[k] > 0
        /\ \A r \in Requests : Succeeded(r) /\ KeyOf(r) = k /\ overlapped[r]

\* C2: two reservations on the same key whose quantities each fit the
\* available amount but together exceed it end, in every interleaving, with
\* exactly one success and one InsufficientStock failure.
C2_ExactlyOneSucceeds ==
    \A r1, r2 \in Requests :
        ( /\ r1 # r2
          /\ pc[r1] = "done" /\ pc[r2] = "done"
          /\ KeyOf(r1) = KeyOf(r2)
          /\ KeyOf(r1) \in DOMAIN stock0
          /\ restocked[KeyOf(r1)] = 0
          /\ params[r1].quantity <= stock0[KeyOf(r1)]
          /\ params[r2].quantity <= stock0[KeyOf(r1)]
          /\ params[r1].quantity + params[r2].quantity > stock0[KeyOf(r1)] )
        => \/ Succeeded(r1) /\ FailedWith(r2, "Insufficient stock")
           \/ Succeeded(r2) /\ FailedWith(r1, "Insufficient stock")

\* C3: once every reservation has completed, each row's available_quantity
\* is its initial quantity plus the restock increments minus the quantities
\* of the reservations that reported success.
C3_NoLostUpdate ==
    (\A r \in Requests : ~InFlight(r))
    => \A k \in DOMAIN stock : stock[k] = stock0[k] + restocked[k] - ReservedOK(k)

\* the step of request r that sends its response
Responds(r) == pc[r] # "done" /\ pc'[r] = "done"

C4_AloneStep ==
    \A r \in Requests :
        (Responds(r) /\ ~overlapped[r] /\ KeyOf(r) \in DOMAIN stock)
        => IF stock[KeyOf(r)] >= params[r].quantity
           THEN /\ response'[r].status = 200 /\ ~response'[r].isError
                /\ response'[r].text.msg = "Successfully reserved"
                /\ stock'[KeyOf(r)] = stock[KeyOf(r)] - params[r].quantity
           ELSE /\ response'[r].status = 200 /\ response'[r].isError
                /\ response'[r].text.error.msg = "Insufficient stock"
                /\ stock' = stock

C4_Following ==
    LET first == RequestOrder[1]
        second == RequestOrder[2]
        k == KeyOf(first)
    IN ( /\ pc[first] = "done" /\ pc[second] = "done"
         /\ ~overlapped[first] /\ ~overlapped[second]
         /\ KeyOf(second) = k
         /\ k \in DOMAIN stock0
         /\ restocked[k] = 0
         /\ params[first].quantity <= stock0[k]
         /\ params[second].quantity > stock0[k] - params[first].quantity )
       => /\ Succeeded(first)
          /\ FailedWith(second, "Insufficient stock")
          /\ response[second].text.error.available = stock0[k] - params[first].quantity
          /\ response[second].text.error.requested = params[second].quantity
          /\ stock[k] = stock0[k] - params[first].quantity

\* C4: a reservation that runs alone on a row with available_quantity
\* a >= q succeeds and leaves a - q; a following reservation asking for more
\* than what remains fails with InsufficientStock and leaves the row as it is.
C4_ReserveAlone == [][C4_AloneStep]_vars /\ []C4_Following

\* the scenario of the spec: qty 3, reserve 2 gives 1, reserve 2 again fails
C4_Witness ==
    /\ <<"S1", "P1">> \in DOMAIN stock0
    /\ stock0[<<"S1", "P1">>] = 3
    /\ \A r \in Requests : params[r] = [product_id |-> "P1", store_id |-> "S1", quantity |-> 2]
    /\ \A r \in Requests : pc[r] = "done" /\ ~overlapped[r]
    /\ stock[<<"S1", "P1">>] = 1
    /\ Succeeded(RequestOrder[1])
    /\ FailedWith(RequestOrder[2], "Insufficient stock")

C5_Envelope ==
    \A r \in Requests :
        ( /\ pc[r] \in {"updated", "done"}
          /\ Len(currentStock[r]) > 0
          /\ currentStock[r][1].availableQuantity < params[r].quantity )
        => /\ pc[r] = "done"
           /\ response[r] =
                [status |-> 200, isError |-> TRUE,
                 text |-> [msg |-> "Reservation failed",
                           error |-> [msg |-> "Insufficient stock",
                                      available |-> currentStock[r][1].availableQuantity,
                                      requested |-> params[r].quantity]]]

C5_NoWrite ==
    \A r \in Requests :
        ( /\ Responds(r)
          /\ Len(currentStock[r]) > 0
          /\ currentStock[r][1].availableQuantity < params[r].quantity )
        => stock' = stock

\* C5: a reservation whose quantity exceeds the available_quantity it read
\* ends with status 200 and the isError envelope naming InsufficientStock
\* with the available and the requested amount, and writes no stock row.
C5_InsufficientStock == []C5_Envelope /\ [][C5_NoWrite]_vars

C5_Witness ==
    \E r \in Requests :
        /\ FailedWith(r, "Insufficient stock")
        /\ response[r].text.error.available = 1
        /\ response[r].text.error.requested = 2

C6_Envelope ==
    \A r \in Requests :
        (pc[r] \in {"updated", "done"} /\ KeyOf(r) \notin DOMAIN stock0)
        => /\ pc[r] = "done"
           /\ response[r] =
                [status |-> 200, isError |-> TRUE,
                 text |-> [msg |-> "Reservation failed",
                           error |-> [msg |-> "Stock record not found"]]]

C6_NoWrite ==
    \A r \in Requests :
        (Responds(r) /\ KeyOf(r) \notin DOMAIN stock) => stock' = stock

\* C6: a reservation for a (store, product) pair without a stock row ends
\* with status 200 and the isError envelope 'Stock record not found'; no row
\* is created and no existing row changes.
C6_NotFound == []C6_Envelope /\ [](DOMAIN stock = DOMAIN stock0) /\ [][C6_NoWrite]_vars

\* a missing pair was asked for while the other store has the product in stock
C6_Witness ==
    \E r \in Requests :
        /\ FailedWith(r, "Stock record not found")
        /\ KeyOf(r) \notin DOMAIN stock
        /\ \E k \in DOMAIN stock : k[2] = params[r].product_id /\ stock[k] >= params[r].quantity

(* ------------------- claims: find_product_nearby ------------------------ *)
Answered == findResponse.status = 200 /\ findResponse.text.msg = "offers"
Offers == IF Answered THEN findResponse.text.offers ELSE <<>>

\* the exact (unrounded) distance between the caller and the offer's store
OfferDistance(o) ==
    distance(findParams.user_lat, findParams.user_lng,
             stores[o.store_id].latitude, stores[o.store_id].longitude)

\* product_query occurs in name as a substring, letters compared without case
ContainsIgnoreCase(name, q) ==
    \E i \in 0..(Len(name) - Len(q)) :
        \A j \in 1..Len(q) : Lower(name[i + j]) = Lower(q[j])

Qualifying ==
    {k \in DOMAIN stock :
        /\ k[1] \in DOMAIN stores /\ k[2] \in DOMAIN products
        /\ NameMatches(k, findParams)
        /\ stock[k] > 0
        /\ ~RowOutOfRange(k, findParams)
        /\ RowDistance(k, findParams) < findParams.max_radius_miles}

Returned == {<<results[i].store, results[i].product>> : i \in 1..Len(results)}

\* C8: the offers are in non-decreasing order of distance_miles, the order
\* is that of the unrounded distances, and a row whose unrounded distance is
\* below the radius is kept even when its rounded distance is not.
C8_SortedByDistance ==
    /\ \A i, j \in 1..Len(Offers) :
         i < j => /\ Offers[i].distance_miles <= Offers[j].distance_miles
                  /\ OfferDistance(Offers[i]) <= OfferDistance(Offers[j])
    /\ (Answered /\ Len(Offers) < Limit)
         => \A k \in Qualifying : \E i \in 1..Len(Offers) :
               /\ Offers[i].store_id = k[1]
               /\ Offers[i].product_name = products[k[2]].name

\* offers 9.991 and 9.994 miles away, both shown as 9.99, and one 9.996
\* miles away shown as 10.00
C8_Witness ==
    \E i, j, l \in 1..Len(Offers) :
        /\ i < j /\ j < l
        /\ OfferDistance(Offers[i]) = 9991 /\ Offers[i].distance_miles = 999
        /\ OfferDistance(Offers[j]) = 9994 /\ Offers[j].distance_miles = 999
        /\ OfferDistance(Offers[l]) = 9996 /\ Offers[l].distance_miles = 1000

\* C9: every returned offer has available_quantity > 0 and a product name
\* that contains product_query as a case-insensitive substring.
C9_InStockAndNameContains ==
    \A i \in 1..Len(Offers) :
        /\ Offers[i].available_quantity > 0
        /\ ContainsIgnoreCase(Offers[i].product_name, findParams.product_query)

\* C10: at most 10 offers are returned; when more than 10 rows qualify,
\* exactly 10 are returned and no omitted qualifying row is closer than a
\* returned one.
C10_ClosestTen ==
    /\ Len(Offers) <= 10
    /\ Answered =>
         /\ Len(Offers) = Len(results)
         /\ \A i \in 1..Len(Offers) :
              /\ Offers[i].store_id = results[i].store
              /\ Offers[i].product_name = products[results[i].product].name
         /\ Returned \subseteq Qualifying
         /\ Cardinality(Returned) = Len(results)
         /\ Cardinality(Qualifying) > 10 =>
              /\ Len(Offers) = 10
              /\ \A k \in Qualifying \ Returned : \A i \in 1..Len(Offers) :
                    OfferDistance(Offers[i]) <= RowDistance(k, findParams)

\* eleven rows qualify; the cut falls between two rows at the same distance
C10_Witness ==
    /\ Answered
    /\ Cardinality(Qualifying) = 11
    /\ Len(Offers) = 10
    /\ \E k \in Qualifying \ Returned :
          RowDistance(k, findParams) = OfferDistance(Offers[10])

ClerkClaims ==
    { NoClaims,
      [present |-> TRUE, metadata |-> FALSE, role |-> JUndefined],
      [present |-> TRUE, metadata |-> TRUE, role |-> JUndefined],
      [present |-> TRUE, metadata |-> TRUE, role |-> JString("admin")] }

ClerkResults ==
    { [threw |-> TRUE, userId |-> JNull, sessionClaims |-> NoClaims],
      [threw |-> FALSE, userId |-> JNull, sessionClaims |-> NoClaims] }
    \cup { [threw |-> FALSE, userId |-> JString("u1"), sessionClaims |-> c] :
             c \in ClerkClaims }

\* texts the app_bridge_session cookie can hold
CookieTexts ==
    { "{\"clerkUserId\":\"u2\",\"role\":\"manager\"}",
      "{\"clerkUserId\":\"u2\"}",
      "{\"clerkUserId\":42}",
      "{\"clerkUserId\":\"\"}",
      "{\"clerkUserId\":null}",
      "{\"role\":\"manager\"}",
      "{}",
      "null",
      "42",
      "{bad",
      "u2" }

BridgeCookies ==
    { NoCookie, [present |-> TRUE, value |-> ""] }
    \cup { [present |-> TRUE, value |-> t] : t \in CookieTexts }

\* JSON.parse on the cookie texts: a syntax error, or the parsed payload
\* with what payload.clerkUserId and payload.role read from it
ParseError ==
    [ok |-> FALSE, payload |-> JUndefined, isObject |-> FALSE,
     clerkUserId |-> JUndefined, role |-> JUndefined]

ParsedObject(clerkUserId, role) ==
    [ok |-> TRUE, payload |-> JUndefined, isObject |-> TRUE,
     clerkUserId |-> clerkUserId, role |-> role]

ParsedPrimitive(v) ==
    [ok |-> TRUE, payload |-> v, isObject |-> FALSE,
     clerkUserId |-> JUndefined, role |-> JUndefined]

JsonParse(text) ==
    CASE text = "{\"clerkUserId\":\"u2\",\"role\":\"manager\"}"
            -> ParsedObject(JString("u2"), JString("manager"))
      [] text = "{\"clerkUserId\":\"u2\"}" -> ParsedObject(JString("u2"), JUndefined)
      [] text = "{\"clerkUserId\":42}" -> ParsedObject(JInteger(42), JUndefined)
      [] text = "{\"clerkUserId\":\"\"}" -> ParsedObject(JString(""), JUndefined)
      [] text = "{\"clerkUserId\":null}" -> ParsedObject(JNull, JUndefined)
      [] text = "{\"role\":\"manager\"}" -> ParsedObject(JUndefined, JString("manager"))
      [] text = "{}" -> ParsedObject(JUndefined, JUndefined)
      [] text = "null" -> ParsedPrimitive(JNull)
      [] text = "42" -> ParsedPrimitive(JInteger(42))
      [] OTHER -> ParseError

\* payload && payload.clerkUserId
PayloadHasUser(parsed) ==
    /\ parsed.isObject \/ Truthy(parsed.payload)
    /\ Truthy(parsed.clerkUserId)

\* (sessionClaims as any)?.metadata?.role
ClerkRole(sessionClaims) ==
    IF sessionClaims.present /\ sessionClaims.metadata
    THEN sessionClaims.role
    ELSE JUndefined

ClerkAuthResult(clerk) ==
    [raised |-> FALSE,
     auth |-> [userId |-> clerk.userId, source |-> "clerk",
               role |-> ClerkRole(clerk.sessionClaims)]]

NullAuthResult ==
    [raised |-> FALSE,
     auth |-> [userId |-> JNull, source |-> "null", role |-> JUndefined]]

RaisedResult == [raised |-> TRUE, auth |-> NoAppAuth]

\* the bridge branch without its try / catch: the parse error escapes
BridgeSessionUncaught(cookie) ==
    IF cookie.present /\ cookie.value # ""
    THEN LET parsed == JsonParse(cookie.value)
         IN  IF ~parsed.ok THEN RaisedResult
             ELSE IF PayloadHasUser(parsed)
             THEN [raised |-> FALSE,
                   auth |-> [userId |-> parsed.clerkUserId, source |-> "bridge",
                             role |-> parsed.role]]
             ELSE NullAuthResult
    ELSE NullAuthResult

\* step 2 of getAppAuth: the bridge session
BridgeSession(cookie) ==
    IF cookie.present /\ cookie.value # ""
    THEN LET parsed == JsonParse(cookie.value)
         IN  IF parsed.ok /\ PayloadHasUser(parsed)
             THEN [raised |-> FALSE,
                   auth |-> [userId |-> parsed.clerkUserId, source |-> "bridge",
                             role |-> parsed.role]]
             ELSE NullAuthResult
    ELSE NullAuthResult

\* the two steps taken in the other order: the bridge session first
getAppAuthBridgeFirst(clerk, cookie) ==
    IF BridgeSession(cookie).auth.source = "bridge"
    THEN BridgeSession(cookie)
    ELSE IF ~clerk.threw /\ Truthy(clerk.userId)
    THEN ClerkAuthResult(clerk)
    ELSE NullAuthResult

\* getAppAuth: Clerk first, the bridge session second
getAppAuth(clerk, cookie) ==
    IF ~clerk.threw /\ Truthy(clerk.userId)
    THEN ClerkAuthResult(clerk)
    ELSE BridgeSession(cookie)

\* one call of getAppAuth for the request at hand
ResolveIdentity ==
    /\ authPc = "called"
    /\ LET result == getAppAuth(clerkResult, bridgeCookie)
       IN  /\ authPc' = IF result.raised THEN "raised" ELSE "returned"
           /\ appAuth' = result.auth
    /\ UNCHANGED <<clerkResult, bridgeCookie>>
    /\ UNCHANGED <<stock, reserveVars, findVars, gateVars>>

AuthInit ==
    /\ stock \in SearchStockTables
    /\ ReserveUnused
    /\ FindUnused
    /\ GateUnused
    /\ clerkResult \in ClerkResults
    /\ bridgeCookie \in BridgeCookies
    /\ authPc = "called"
    /\ appAuth = NoAppAuth

AuthNext == ResolveIdentity

AuthSpec == AuthInit /\ [][AuthNext]_vars

(* ------------------------ claims: getAppAuth ---------------------------- *)
\* getAppAuth has finished, one way or the other
Resolved == authPc \in {"returned", "raised"}

ClerkHasUser ==
    /\ ~clerkResult.threw
    /\ clerkResult.userId.type = "string"
    /\ clerkResult.userId.str # ""

\* cookie texts that are not JSON, and JSON payloads with no user id in them
UnparsableTexts == {"{bad", "u2"}
NoUserIdTexts ==
    {"{}", "{\"role\":\"manager\"}", "{\"clerkUserId\":\"\"}",
     "{\"clerkUserId\":null}", "null", "42"}

\* C12: whenever Clerk yields a non-empty user id, getAppAuth returns that
\* user id with source clerk, whatever the bridge cookie holds: absent,
\* malformed, or valid for another user.
C12_ClerkWins ==
    (Resolved /\ ClerkHasUser)
    => /\ authPc = "returned"
       /\ appAuth.userId = clerkResult.userId
       /\ appAuth.source = "clerk"

\* Clerk says u1, the cookie is a valid bridge session of u2: u1 is returned
C12_Witness ==
    /\ authPc = "returned"
    /\ clerkResult.userId = JString("u1")
    /\ bridgeCookie.value = "{\"clerkUserId\":\"u2\",\"role\":\"manager\"}"
    /\ appAuth.userId = JString("u1")

\* C13: when Clerk throws or yields no user id, and the bridge cookie is
\* present but is not JSON or is a payload without a user id, getAppAuth
\* returns {userId: null, source: null} and raises nothing.
C13_MalformedCookieIgnored ==
    (/\ Resolved
     /\ ~ClerkHasUser
     /\ bridgeCookie.present
     /\ bridgeCookie.value \in UnparsableTexts \cup NoUserIdTexts)
    => /\ authPc = "returned"
       /\ appAuth = [userId |-> JNull, source |-> "null", role |-> JUndefined]

\* Clerk throws and the cookie text is not JSON: the null identity comes back
C13_Witness ==
    /\ authPc = "returned"
    /\ clerkResult.threw
    /\ bridgeCookie.value = "{bad"
    /\ appAuth.userId = JNull
    /\ appAuth.source = "null"

(* ----------------------- middleware and proxy --------------------------- *)
\* NEXT_PUBLIC_CLERK_PUBLISHABLE_KEY must be longer than this to count
ClerkKeyMinLength == 20

\* a pathname is held as the sequence of its pieces: "/api/mcp" is
\* <<"/api", "/mcp">>, and a string prefix is a prefix of the sequence
Pathnames ==
    { <<"/">>, <<"/shop">>, <<"/shop", "/cart">>, <<"/inventory", "/list">>,
      <<"/dashboard">>,
      <<"/api", "/mcp">>,
      <<"/api", "/webhooks", "/clerk">>,
      <<"/api", "/auth", "/bridge">>,
      <<"/api", "/auth", "/session">>,
      <<"/api", "/inventory", "/sync">>,
      <<"/api", "/inventory", "/other">> }

\* the x-internal-system-key header: not sent, or sent with a value
Headers ==
    { [present |-> FALSE, value |-> ""] }
    \cup { [present |-> TRUE, value |-> v] : v \in {"", "secret", "wrong"} }

GateRequests == { [pathname |-> p, header |-> h] : p \in Pathnames, h \in Headers }

\* process.env: the Clerk publishable key (its length) and INTERNAL_SYSTEM_KEY
GateConfigs ==
    { [publishableKey |-> k, internalSystemKey |-> i] :
        k \in { [present |-> FALSE, length |-> 0] }
              \cup { [present |-> TRUE, length |-> n] : n \in {0, 20, 21, 40} },
        i \in { [present |-> FALSE, value |-> ""] }
              \cup { [present |-> TRUE, value |-> v] : v \in {"", "secret"} } }

\* pathname.startsWith(prefix)
StartsWith(pathname, prefix) ==
    /\ Len(pathname) >= Len(prefix)
    /\ SubSeq(pathname, 1, Len(prefix)) = prefix

\* createRouteMatcher(['/api(.*)'])
isApiRoute(pathname) == StartsWith(pathname, <<"/api">>)

\* createRouteMatcher of the public patterns: three exact paths, four prefixes
isPublicRoute(pathname) ==
    \/ pathname \in { <<"/api", "/auth", "/bridge">>, <<"/">>,
                      <<"/api", "/inventory", "/sync">> }
    \/ \E prefix \in {"/shop", "/search", "/inventory", "/admin"} :
          StartsWith(pathname, <<prefix>>)

\* the key must be set, non-empty and longer than ClerkKeyMinLength
hasClerkKeys(config) ==
    /\ config.publishableKey.present
    /\ config.publishableKey.length # 0
    /\ config.publishableKey.length > ClerkKeyMinLength

\* request.headers.get('x-internal-system-key'): null when not sent
HeaderGet(request) ==
    IF request.header.present THEN JString(request.header.value) ELSE JNull

\* process.env.INTERNAL_SYSTEM_KEY: undefined when not set
ValidKey(config) ==
    IF config.internalSystemKey.present
    THEN JString(config.internalSystemKey.value)
    ELSE JUndefined

\* a comparison of the two texts with null and undefined read as ""
KeyMatchesLoose(internalKey, validKey) == internalKey.str = validKey.str

\* internalKey && internalKey === validKey
KeyMatches(internalKey, validKey) ==
    /\ Truthy(internalKey)
    /\ internalKey = validKey

\* !internalKey || internalKey !== validKey
KeyRejected(internalKey, validKey) ==
    \/ ~Truthy(internalKey)
    \/ internalKey # validKey

NextResponseNext(line) == [returnedAt |-> line, outcome |-> "next", status |-> 0]

Unauthorized(line) == [returnedAt |-> line, outcome |-> "deny", status |-> 401]

\* a handler that protects the route instead of returning nothing
HandlerFallThroughDenies == Unauthorized("middleware.ts:53")

\* the clerkMiddleware handler ends without returning: no decision of its own
HandlerFallThrough ==
    [returnedAt |-> "middleware.ts:53", outcome |-> "none", status |-> 0]

\* middleware(request, event)
Middleware(config, request) ==
    LET pathname == request.pathname
        checked == isApiRoute(pathname) /\ ~StartsWith(pathname, <<"/api", "/webhooks">>)
        matches == KeyMatches(HeaderGet(request), ValidKey(config))
    IN  IF ~hasClerkKeys(config)
        THEN IF checked /\ matches
             THEN NextResponseNext("middleware.ts:28")
             ELSE NextResponseNext("middleware.ts:31")
        ELSE IF isPublicRoute(pathname)
        THEN NextResponseNext("middleware.ts:38")
        ELSE IF checked /\ matches
        THEN NextResponseNext("middleware.ts:49")
        ELSE HandlerFallThrough

\* proxy(request)
Proxy(config, request) ==
    LET pathname == request.pathname
    IN  IF StartsWith(pathname, <<"/api">>)
        THEN IF StartsWith(pathname, <<"/api", "/auth">>)
             THEN NextResponseNext("proxy.ts:11")
             ELSE IF KeyRejected(HeaderGet(request), ValidKey(config))
             THEN Unauthorized("proxy.ts:18")
             ELSE NextResponseNext("proxy.ts:25")
        ELSE NextResponseNext("proxy.ts:25")

NoGateRun ==
    /\ gateRequest = NoGateRequest
    /\ middlewareResult = NoGateResult
    /\ proxyResult = NoGateResult

\* middleware.ts handles a request
RunMiddleware(request) ==
    /\ NoGateRun
    /\ gateRequest' = request
    /\ middlewareResult' = Middleware(gateConfig, request)
    /\ UNCHANGED <<gateConfig, proxyResult>>
    /\ UNCHANGED <<stock, reserveVars, findVars, authVars>>

\* proxy.ts handles a request
RunProxy(request) ==
    /\ NoGateRun
    /\ gateRequest' = request
    /\ proxyResult' = Proxy(gateConfig, request)
    /\ UNCHANGED <<gateConfig, middlewareResult>>
    /\ UNCHANGED <<stock, reserveVars, findVars, authVars>>

GateInit ==
    /\ stock \in SearchStockTables
    /\ ReserveUnused
    /\ FindUnused
    /\ AuthUnused
    /\ gateConfig \in GateConfigs
    /\ NoGateRun

GateNext ==
    \/ \E request \in GateRequests : RunMiddleware(request)
    \/ \E request \in GateRequests : RunProxy(request)

GateSpec == GateInit /\ [][GateNext]_vars

(* -------------------- claims: middleware and proxy ---------------------- *)
MiddlewareRan == middlewareResult # NoGateResult
ProxyRan == proxyResult # NoGateResult

IsWebhookPath == StartsWith(gateRequest.pathname, <<"/api", "/webhooks">>)

\* the header was sent, is not empty, and is the configured secret
HeaderIsSecret ==
    /\ gateRequest.header.present
    /\ gateRequest.header.value # ""
    /\ gateConfig.internalSystemKey.present
    /\ gateConfig.internalSystemKey.value # ""
    /\ gateRequest.header.value = gateConfig.internalSystemKey.value

\* the request reached the comparison of the header with the secret
MiddlewareChecked ==
    /\ MiddlewareRan
    /\ isApiRoute(gateRequest.pathname)
    /\ ~IsWebhookPath
    /\ hasClerkKeys(gateConfig) => ~isPublicRoute(gateRequest.pathname)

ProxyChecked ==
    /\ ProxyRan
    /\ StartsWith(gateRequest.pathname, <<"/api">>)
    /\ ~StartsWith(gateRequest.pathname, <<"/api", "/auth">>)

\* C14: without Clerk keys the middleware denies every request to an /api
\* route that is neither a declared public route nor under the webhook path
\* unless its header is exactly the configured secret, and it allows every
\* request to a declared public route.
C14_UnconfiguredGate ==
    (MiddlewareRan /\ ~hasClerkKeys(gateConfig))
    => /\ (/\ isApiRoute(gateRequest.pathname)
           /\ ~isPublicRoute(gateRequest.pathname)
           /\ ~IsWebhookPath
           /\ ~HeaderIsSecret) => middlewareResult.outcome = "deny"
       /\ isPublicRoute(gateRequest.pathname) => middlewareResult.outcome = "next"

\* C15: wherever the header is compared with the secret (middleware in
\* both modes, proxy), the comparison passes exactly when the header is
\* non-empty and equal to the configured secret; an empty or missing header
\* never passes, whether the secret is set, empty or missing.
C15_SecretCheck ==
    /\ MiddlewareChecked
         => (middlewareResult.returnedAt \in {"middleware.ts:28", "middleware.ts:49"}
               <=> HeaderIsSecret)
    /\ ~MiddlewareChecked
         => middlewareResult.returnedAt \notin {"middleware.ts:28", "middleware.ts:49"}
    /\ ProxyChecked
         => /\ proxyResult.returnedAt = "proxy.ts:25" <=> HeaderIsSecret
            /\ proxyResult.outcome = "deny" <=> ~HeaderIsSecret

\* an empty header against an empty secret: the proxy answers 401
C15_Witness ==
    /\ ProxyChecked
    /\ gateRequest.header = [present |-> TRUE, value |-> ""]
    /\ gateConfig.internalSystemKey = [present |-> TRUE, value |-> ""]
    /\ proxyResult.status = 401

\* C18: with Clerk keys the handler returns next for every declared public
\* route, returns next for an /api request with the valid secret, never
\* denies a request itself, and never applies the secret check to a request
\* under the webhook path.
C18_ConfiguredGate ==
    (MiddlewareRan /\ hasClerkKeys(gateConfig))
    => /\ isPublicRoute(gateRequest.pathname)
            => middlewareResult = NextResponseNext("middleware.ts:38")
       /\ (isApiRoute(gateRequest.pathname) /\ ~IsWebhookPath /\ HeaderIsSecret)
            => middlewareResult.outcome = "next"
       /\ middlewareResult.outcome # "deny"
       /\ middlewareResult.status = 0
       /\ IsWebhookPath => middlewareResult.returnedAt # "middleware.ts:49"

\* an /api request without the header, Clerk keys set: the handler ends
\* without a decision
C18_Witness ==
    /\ MiddlewareRan
    /\ hasClerkKeys(gateConfig)
    /\ gateRequest.pathname = <<"/api", "/mcp">>
    /\ ~gateRequest.header.present
    /\ middlewareResult.returnedAt = "middleware.ts:53"
    /\ middlewareResult.outcome = "none"

(* ------------------- POST: dispatch and validation ---------------------- *)
\* reserveStockSchema.parse(params) succeeds: two strings and a positive
\* integer (numbers are in tenths, so an integer is a multiple of ten)
reserveStockSchemaParses(raw) ==
    /\ raw.present
    /\ raw.product_id.type = "string"
    /\ raw.store_id.type = "string"
    /\ raw.quantity.type = "number"
    /\ raw.quantity.num % 10 = 0
    /\ raw.quantity.num > 0

\* findProductSchema.parse(params) succeeds: a string, two numbers, and a
\* number or nothing for max_radius_miles
findProductSchemaParses(raw) ==
    /\ raw.present
    /\ raw.product_query.type = "string"
    /\ raw.user_lat.type = "number"
    /\ raw.user_lng.type = "number"
    /\ raw.max_radius_miles.type \in {"number", "undefined"}

ToolNames == {JString("find_product_nearby"), JString("reserve_stock_item")}

ObjectBody(tool, raw) == [kind |-> "object", tool |-> tool, params |-> raw]

\* reserve_stock_item params that reserveStockSchema rejects: quantity
\* zero, negative, not an integer; no params at all
InvalidReserveParams ==
    { RawReserveParams(JString("P1"), JString("S1"), JInteger(0)),
      RawReserveParams(JString("P1"), JString("S1"), JInteger(0 - 1)),
      RawReserveParams(JString("P1"), JString("S1"), JNumber(15)),
      NoRawParams }

\* find_product_nearby params that findProductSchema rejects: no user_lat
InvalidFindParams ==
    { RawFindParams(JString("widget"), JUndefined, JNumber(0 - 1220), JUndefined) }

\* bodies naming a tool with params its schema rejects
InvalidParamsBodies ==
    { ObjectBody(JString("reserve_stock_item"), raw) : raw \in InvalidReserveParams }
    \cup { ObjectBody(JString("find_product_nearby"), raw) : raw \in InvalidFindParams }

\* bodies whose tool is neither of the two names (or is not there at all)
UnknownToolBodies ==
    { ObjectBody(tool, raw) :
        tool \in {JString("delete_stock"), JUndefined},
        raw \in { NoRawParams,
                  RawReserveParams(JString("P1"), JString("S1"), JInteger(1)),
                  RawReserveParams(JString("P1"), JString("S1"), JInteger(0)) } }

\* bodies from which { tool, params } cannot be read: the JSON text null,
\* and a text that is not JSON
UnreadableBodies ==
    { [kind |-> "null", tool |-> JUndefined, params |-> NoRawParams],
      [kind |-> "not json", tool |-> JUndefined, params |-> NoRawParams] }

\* an unknown tool answered as a missing resource
UnknownToolNotFound == [status |-> 404, error |-> "Unknown tool"]

\* NextResponse.json({ error: 'Unknown tool' }, { status: 400 })
UnknownToolResponse == [status |-> 400, error |-> "Unknown tool"]

\* the request is answered before any transaction is opened
AnswerWithoutStock(r, b, answer) ==
    /\ pc[r] = "idle"
    /\ ArrivedBefore(r)
    /\ body' = [body EXCEPT ![r] = b]
    /\ pc' = [pc EXCEPT ![r] = "done"]
    /\ response' = [response EXCEPT ![r] = answer]
    /\ UNCHANGED <<stock, stock0, restocked, nRestocks, params, currentStock, overlapped>>
    /\ UNCHANGED <<findVars, authVars, gateVars>>

\* schema.parse throws a ZodError, which the outer catch answers
RejectParams(r, b) ==
    /\ b.kind = "object"
    /\ \/ b.tool = JString("find_product_nearby") /\ ~findProductSchemaParses(b.params)
       \/ b.tool = JString("reserve_stock_item") /\ ~reserveStockSchemaParses(b.params)
    /\ AnswerWithoutStock(r, b, ServerErrorResponse("ZodError"))

\* neither if-branch is taken
UnknownTool(r, b) ==
    /\ b.kind = "object"
    /\ b.tool \notin ToolNames
    /\ AnswerWithoutStock(r, b, UnknownToolResponse)

\* req.json() or the destructuring of the body throws; the outer catch answers
UnreadableBody(r, b) ==
    /\ b.kind # "object"
    /\ AnswerWithoutStock(r, b,
          ServerErrorResponse(IF b.kind = "null" THEN "TypeError" ELSE "SyntaxError"))

\* the POST handler alone: the steps of the requests, no restocking
DispatchNext ==
    \/ \E r \in Requests : Begin(r)
    \/ \E r \in Requests : ThrowNotFound(r)
    \/ \E r \in Requests : ThrowInsufficient(r)
    \/ \E r \in Requests : Update(r)
    \/ \E r \in Requests : Commit(r)
    \/ \E r \in Requests, b \in InvalidParamsBodies : RejectParams(r, b)
    \/ \E r \in Requests, b \in UnknownToolBodies : UnknownTool(r, b)
    \/ \E r \in Requests, b \in UnreadableBodies : UnreadableBody(r, b)

DispatchSpec == Init /\ [][DispatchNext]_vars

(* --------------- claims: POST dispatch and validation ------------------- *)
\* the body names one of the two tools and its params violate its schema
ViolatesSchema(b) ==
    /\ b.kind = "object"
    /\ \/ b.tool = JString("reserve_stock_item") /\ ~reserveStockSchemaParses(b.params)
       \/ b.tool = JString("find_product_nearby") /\ ~findProductSchemaParses(b.params)

\* the body is an object whose tool is neither of the two names
NamesNoTool(b) ==
    /\ b.kind = "object"
    /\ b.tool # JString("find_product_nearby")
    /\ b.tool # JString("reserve_stock_item")

\* C16: a request whose params violate the schema of the tool it names is
\* answered with a 4xx status, which is not the status of an unexpected
\* internal error, and reads and writes no stock row.
C16_ValidationError ==
    \A r \in Requests :
        (pc[r] = "done" /\ ViolatesSchema(body[r]))
        => /\ response[r].status \in 400..499
           /\ response[r].status # 500
           /\ currentStock[r] = <<>>

\* the request was answered without a parsed params object and without a
\* row read from stock
C19_Answer ==
    \A r \in Requests :
        (pc[r] = "done" /\ NamesNoTool(body[r]))
        => /\ response[r] = [status |-> 400, error |-> "Unknown tool"]
           /\ params[r] = NoParams
           /\ currentStock[r] = <<>>

C19_NoWrite ==
    \A r \in Requests :
        (Responds(r) /\ NamesNoTool(body'[r])) => stock' = stock

\* C19: a POST whose tool is neither find_product_nearby nor
\* reserve_stock_item is answered with status 400 and {error: 'Unknown
\* tool'} whatever its params are; the params are not parsed and no stock
\* row is read or written.
C19_UnknownTool == []C19_Answer /\ [][C19_NoWrite]_vars

\* an unknown tool sent with params that reserveStockSchema would reject,
\* while another request has changed stock
C19_Witness ==
    /\ pc["r2"] = "done"
    /\ body["r2"].tool = JString("delete_stock")
    /\ body["r2"].params.quantity = JInteger(0)
    /\ response["r2"].status = 400
    /\ Succeeded("r1")

(* ------------------ POST: failure of the database ----------------------- *)
\* the error a lost or timed-out connection raises inside db.transaction
ConnectionError == [msg |-> "Connection terminated unexpectedly"]

\* the database fails while the transaction of r is open (after the SELECT,
\* or while the UPDATE or the COMMIT runs): the transaction is rolled back,
\* the error is thrown inside the inner try and its catch answers
DbFailure(r) ==
    /\ pc[r] \in {"selected", "updated"}
    /\ pc' = [pc EXCEPT ![r] = "done"]
    /\ response' = [response EXCEPT ![r] = FailureResponse(ConnectionError)]
    /\ UNCHANGED <<stock, stock0, restocked, nRestocks, params, currentStock, overlapped, body>>
    /\ UNCHANGED <<findVars, authVars, gateVars>>

\* the requests' steps, with a database that can fail
FaultNext ==
    \/ \E r \in Requests : Begin(r)
    \/ \E r \in Requests : ThrowNotFound(r)
    \/ \E r \in Requests : ThrowInsufficient(r)
    \/ \E r \in Requests : Update(r)
    \/ \E r \in Requests : Commit(r)
    \/ \E r \in Requests : DbFailure(r)

FaultSpec == Init /\ [][FaultNext]_vars

(* ---------------- claims: failure of the database ----------------------- *)
\* C17: only NotFound and InsufficientStock are answered in the isError
\* content envelope; an unexpected internal error raised while the
\* transaction runs is answered with status 500 and an error field.
C17_InternalErrorIs500 ==
    \A r \in Requests :
        (pc[r] = "done" /\ response[r].status = 200 /\ response[r].isError)
        => response[r].text.error.msg \in {"Stock record not found", "Insufficient stock"}

(* ------------------- the four components together ---------------------- *)
\* every behaviour of the reservation handler (with restocking), of the
\* search handler, of getAppAuth and of the gates, over one stock table
FrameInit == Init \/ SearchInit \/ AuthInit \/ GateInit

FrameNext ==
    \/ stock0 \in StockTables /\ FindUnused /\ AuthUnused /\ GateUnused /\ Next
    \/ ReserveUnused /\ AuthUnused /\ GateUnused /\ SearchNext
    \/ ReserveUnused /\ FindUnused /\ GateUnused /\ AuthNext
    \/ ReserveUnused /\ FindUnused /\ AuthUnused /\ GateNext

FrameSpec == FrameInit /\ [][FrameNext]_vars

(* ------------------------- claims: frame -------------------------------- *)
C20_FrameStep ==
    /\ DOMAIN stock' = DOMAIN stock
    /\ \A r \in Requests :
         /\ Responds(r)
              => \A k \in DOMAIN stock \ {KeyOf(r)} : stock'[k] = stock[k]
         /\ (pc'[r] # pc[r] /\ ~Responds(r)) => stock' = stock
    /\ (findVars' # findVars \/ authVars' # authVars \/ gateVars' # gateVars)
         => stock' = stock

\* C20: the step that ends a reserve_stock_item call on (store, product),
\* with success or with failure, leaves every stock row with another key as
\* it was, and its other steps write nothing; no step removes or adds a
\* row; a find_product_nearby call, a decision of middleware or proxy and a
\* getAppAuth call leave the stock table as it was.
C20_Frame == [][C20_FrameStep]_vars

\* a reservation on (S1, P1) has succeeded and the row of (S2, P1), of the
\* same product, still holds what it held at the start
C20_Witness ==
    /\ \E r \in Requests : Succeeded(r) /\ KeyOf(r) = <<"S1", "P1">>
    /\ nRestocks = 0
    /\ <<"S1", "P1">> \in DOMAIN stock
    /\ <<"S2", "P1">> \in DOMAIN stock
    /\ stock[<<"S1", "P1">>] < stock0[<<"S1", "P1">>]
    /\ stock0[<<"S2", "P1">>] > 0
    /\ stock[<<"S2", "P1">>] = stock0[<<"S2", "P1">>]

====
